---------------------------- MODULE Spec2Model ----------------------------
(***************************************************************************)
(* A model of the Recompilation Patcher: the patch engine                  *)
(* (Patcher/Patcher.cpp) and the command-line driver (Main.cpp) with its   *)
(* two compiled-in patch tables.                                           *)
(*                                                                         *)
(* A std::string / std::string_view is a sequence of bytes; a byte is a    *)
(* one-character string, and NUL stands for the byte of value 0.           *)
(* Positions are the 0-based size_t offsets of the C++ code.  A size_t is  *)
(* held as the representative of its value modulo 2^64 that lies in        *)
(* (-2^63, 2^63): npos (all bits set) is -1, and a depth counter           *)
(* decremented below zero is -1, -2, ...  The code only ever compares such *)
(* a value with 0, with npos or with a buffer size, and no buffer of the   *)
(* model is anywhere near 2^63 bytes long, so the representative decides   *)
(* every comparison exactly as the 64-bit value does.                      *)
(***************************************************************************)
EXTENDS Integers, Sequences, FiniteSets, TLC

VARIABLES
    \* ---- a caller of patcher::Apply (specification Spec) ----
    file,       \* the std::string buffer handed to Apply by reference
    descs,      \* the descriptor list handed to Apply
    token,      \* the string_view returned by the last call
    failed,     \* 1-based index of the descriptor whose return statement
                \* ended the last call, 0 for the final return {}
    hist,       \* the buffer as it was before each call made so far
    \* ---- the driver (specification SpecDriver) ----
    disk,       \* path -> bytes of the file on disk
    disk0,      \* the disk before the run
    unreadable, \* paths whose ifstream fails to open
    unwritable, \* paths whose ofstream fails to open
    rootExists, \* std::filesystem::exists(argv[1])
    todo,       \* entries of patches the loop has not visited yet
    visited,    \* paths in the order the loop visited them
    written,    \* paths for which WriteFileUTF8 returned true
    out,        \* lines printed to standard output
    exitCode,   \* value returned by main
    pc          \* position of the caller / of main

engineVars == <<file, descs, token, failed, hist>>
driverVars == <<disk, disk0, unreadable, unwritable, rootExists, todo,
                visited, written, out, exitCode>>
vars == <<engineVars, driverVars, pc>>

-----------------------------------------------------------------------------
(* Bytes and strings *)

NUL == "\\0"

\* The byte 0x60 (a grave accent cannot be written in a string literal).
Backquote == "\\x60"

\* A string literal as a sequence of bytes.
Chars(s) == [i \in 1..Len(s) |-> SubSeq(s, i, i)]

\* haystack[i] for a 0-based offset i.
At(s, i) == s[i + 1]

Min(S) == CHOOSE x \in S : \A y \in S : x <= y

\* std::string::npos
npos == -1

\* A find that returns the highest offset (rfind) instead of the lowest.
FindLast(haystack, needle) ==
    LET P == {p \in 0..(Len(haystack) - Len(needle)) :
                SubSeq(haystack, p + 1, p + Len(needle)) = needle}
    IN  IF P = {} THEN npos ELSE CHOOSE x \in P : \A y \in P : x >= y

\* std::basic_string(_view)::find(needle): the lowest offset at which needle
\* occurs, npos when there is none; the empty needle is found at offset 0.
Find(haystack, needle) ==
    LET P == {p \in 0..(Len(haystack) - Len(needle)) :
                SubSeq(haystack, p + 1, p + Len(needle)) = needle}
    IN  IF P = {} THEN npos ELSE Min(P)

\* A replace that removes as many bytes as it inserts.
ReplaceLenOfStr(s, pos, count, str) ==
    LET n == IF Len(str) > Len(s) - pos THEN Len(s) - pos ELSE Len(str)
    IN  SubSeq(s, 1, pos) \o str \o SubSeq(s, pos + n + 1, Len(s))

\* std::string::replace(pos, count, str): the count bytes from pos (at most
\* those up to the end) give way to str.
Replace(s, pos, count, str) ==
    LET n == IF count > Len(s) - pos THEN Len(s) - pos ELSE count
    IN  SubSeq(s, 1, pos) \o str \o SubSeq(s, pos + n + 1, Len(s))

\* std::format("function {}(", function)
Format(function) == Chars("function ") \o function \o Chars("(")

-----------------------------------------------------------------------------
(* Patcher.cpp *)

\* The condition of the for loop of FindExplicitFunctionBody on its
\* variables st = (begin, end, foundBegin, depth).
ScanCondition(haystack, st) ==
    st.end < Len(haystack) /\ ~(st.foundBegin /\ st.depth = 0)

\* One round of the loop: the body and the increment ++end.
ScanStep(haystack, st) ==
    IF At(haystack, st.end) = "{"
    THEN [begin |-> IF st.foundBegin THEN st.begin ELSE st.end,
          end |-> st.end + 1,
          foundBegin |-> TRUE,
          depth |-> st.depth + 1]
    ELSE IF At(haystack, st.end) = "}"
    THEN [st EXCEPT !.end = st.end + 1, !.depth = st.depth - 1]
    ELSE [st EXCEPT !.end = st.end + 1]

\* At most n rounds of the loop, one after another, stopping when the
\* condition fails (split in halves only to keep the evaluation shallow).
RECURSIVE ScanRounds(_, _, _)
ScanRounds(haystack, st, n) ==
    IF n = 0 \/ ~ScanCondition(haystack, st) THEN st
    ELSE IF n = 1 THEN ScanStep(haystack, st)
    ELSE LET mid == ScanRounds(haystack, st, n \div 2)
         IN  IF ScanCondition(haystack, mid)
             THEN ScanRounds(haystack, mid, n - (n \div 2))
             ELSE mid

\* The loop from its initialisation to its exit: end advances by one per
\* round from definition, so the loop is left within size - definition
\* rounds and one more test of its condition.
ScanLoop(haystack, definition) ==
    ScanRounds(haystack,
               [begin |-> definition, end |-> definition,
                foundBegin |-> FALSE, depth |-> 0],
               Len(haystack) - definition)

\* FindExplicitFunctionBody: the pair {begin, end}; the value-initialised
\* pair {} is {0, 0}.
FindExplicitFunctionBody(haystack, function) ==
    LET definition == Find(haystack, Format(function))
    IN  IF definition = npos
        THEN [begin |-> 0, end |-> 0]
        ELSE LET r == ScanLoop(haystack, definition)
             IN  IF r.end = Len(haystack)
                 THEN [begin |-> 0, end |-> 0]
                 ELSE [begin |-> r.begin, end |-> r.end]

ReplaceOne == "ReplaceOne"
ExplicitFunction == "ExplicitFunction"

Descriptor(type, tok, replacement) ==
    [type |-> type, token |-> tok, replacement |-> replacement]

RECURSIVE ApplyFrom(_, _, _)

\* A loop that returns success after its first descriptor.
ApplyFromFirstOnly(f, ds, k) ==
    IF k > Len(ds) \/ k > 1
    THEN [file |-> f, token |-> <<>>, failed |-> 0]
    ELSE LET desc == ds[k] IN
         IF desc.type = ReplaceOne
         THEN LET pos == Find(f, desc.token) IN
              IF pos = npos
              THEN [file |-> f, token |-> desc.token, failed |-> k]
              ELSE ApplyFrom(Replace(f, pos, Len(desc.token),
                                     desc.replacement), ds, k + 1)
         ELSE LET body == FindExplicitFunctionBody(f, desc.token) IN
              IF body.begin = 0 \/ body.end = 0
              THEN [file |-> f, token |-> desc.token, failed |-> k]
              ELSE ApplyFrom(Replace(f, body.begin, body.end - body.begin,
                                     desc.replacement), ds, k + 1)

\* A loop that notes a miss and goes on to the remaining descriptors.
ApplyFromContinue(f, ds, k) ==
    IF k > Len(ds)
    THEN [file |-> f, token |-> <<>>, failed |-> 0]
    ELSE LET desc == ds[k]
             pos  == Find(f, desc.token)
             body == FindExplicitFunctionBody(f, desc.token)
             rest == ApplyFrom(IF desc.type = ReplaceOne
                               THEN IF pos = npos THEN f
                                    ELSE Replace(f, pos, Len(desc.token),
                                                 desc.replacement)
                               ELSE IF body.begin = 0 \/ body.end = 0 THEN f
                                    ELSE Replace(f, body.begin,
                                                 body.end - body.begin,
                                                 desc.replacement),
                               ds, k + 1)
             miss == IF desc.type = ReplaceOne THEN pos = npos
                     ELSE body.begin = 0 \/ body.end = 0
         IN  IF miss
             THEN [file |-> rest.file, token |-> desc.token, failed |-> k]
             ELSE rest

\* The loop of Apply from its k-th descriptor on (1-based): the buffer it
\* leaves, the view it returns, and which return statement it took.
ApplyFrom(f, ds, k) ==
    IF k > Len(ds)
    THEN [file |-> f, token |-> <<>>, failed |-> 0]
    ELSE LET desc == ds[k] IN
         IF desc.type = ReplaceOne
         THEN LET pos == Find(f, desc.token) IN
              IF pos = npos
              THEN [file |-> f, token |-> desc.token, failed |-> k]
              ELSE ApplyFrom(Replace(f, pos, Len(desc.token),
                                     desc.replacement), ds, k + 1)
         ELSE LET body == FindExplicitFunctionBody(f, desc.token) IN
              IF body.begin = 0 \/ body.end = 0
              THEN [file |-> f, token |-> desc.token, failed |-> k]
              ELSE ApplyFrom(Replace(f, body.begin, body.end - body.begin,
                                     desc.replacement), ds, k + 1)

\* patcher::Apply(file, descs)
Apply(f, ds) == ApplyFrom(f, ds, 1)

-----------------------------------------------------------------------------
(* The inputs of the caller of Apply *)

MaxLen == 3      \* free bytes after the anchor of a buffer
MaxDescs == 2    \* descriptors in a list
MaxCalls == 2    \* calls of Apply on one buffer

Sigma == {"X", "{", "}"}

SeqsUpTo(S, n) == UNION {[1..k -> S] : k \in 0..n}

Buffers ==
    {pre \o anchor \o post :
        pre \in {<<>>, <<"X">>},
        anchor \in {<<>>, Format(Chars("g")), Format(<<>>)},
        post \in SeqsUpTo(Sigma, MaxLen)}

Descriptors ==
    { Descriptor(ReplaceOne, Chars("X"), Chars("XX")),
      Descriptor(ReplaceOne, Chars("XX"), Chars("X")),
      Descriptor(ReplaceOne, <<>>, Chars("}")),
      Descriptor(ReplaceOne, Chars("}"), <<>>),
      Descriptor(ExplicitFunction, Chars("g"), Chars("{}")),
      Descriptor(ExplicitFunction, <<>>, Chars("{X}")) }

\* The concrete scenarios of the specification's section 8.
Scenarios ==
    { <<Chars("aXbXc"), <<Descriptor(ReplaceOne, Chars("X"), Chars("YY"))>> >>,
      <<Chars("abc"), <<Descriptor(ReplaceOne, Chars("Z"), Chars("!"))>> >>,
      <<Chars("x; function foo(a,b) { if(a){b();} return 1; } y"),
        <<Descriptor(ExplicitFunction, Chars("foo"), Chars("{return 0;}"))>> >>,
      <<Chars("function g() { {{}} }"),
        <<Descriptor(ExplicitFunction, Chars("g"), Chars("{}"))>> >>,
      <<Chars("function bar(){}"),
        <<Descriptor(ExplicitFunction, Chars("baz"), Chars("{}"))>> >>,
      <<Chars("AB"), <<Descriptor(ReplaceOne, Chars("A"), Chars("A1")),
                       Descriptor(ReplaceOne, Chars("Z"), Chars("Z1")),
                       Descriptor(ReplaceOne, Chars("B"), Chars("B1"))>> >> }

\* Further concrete inputs: an empty function name, a '}' between the anchor
\* and the opening brace, a replacement that contains its token.
Cases ==
    { <<Chars("abc"),
        <<Descriptor(ExplicitFunction, <<>>, Chars("{X}"))>> >>,
      <<Chars("function g(}{}X"),
        <<Descriptor(ExplicitFunction, Chars("g"), Chars("{}"))>> >>,
      <<Chars("aXbX"), <<Descriptor(ReplaceOne, Chars("X"), Chars("XY"))>> >> }

Inputs ==
    (Buffers \X SeqsUpTo(Descriptors, MaxDescs)) \cup Scenarios \cup Cases

DriverIdle ==
    /\ disk = <<>> /\ disk0 = <<>> /\ unreadable = {} /\ unwritable = {}
    /\ rootExists = FALSE /\ todo = {} /\ visited = <<>> /\ written = {}
    /\ out = <<>> /\ exitCode = 0

Init ==
    /\ \E in \in Inputs : file = in[1] /\ descs = in[2]
    /\ token = <<>> /\ failed = 0 /\ hist = <<>>
    /\ pc = "caller"
    /\ DriverIdle

\* The caller calls Apply(file, descs); Apply keeps nothing between calls.
Call ==
    /\ pc = "caller"
    /\ Len(hist) < MaxCalls
    /\ LET r == Apply(file, descs) IN
         /\ file' = r.file
         /\ token' = r.token
         /\ failed' = r.failed
    /\ hist' = Append(hist, file)
    /\ UNCHANGED <<descs, driverVars, pc>>

Next == Call

Spec == Init /\ [][Next]_vars

-----------------------------------------------------------------------------
(* PatchesDeviceInfo.hpp, PatchesWebsiteLibMin.hpp *)

\* kPatchesDeviceInfo[0].token
DeviceInfoToken1 ==
    Chars("if(arg.pid===\"GET_DEVICE_INFO\"){event.returnValue=deviceIn"
          \o "fo}")

\* kPatchesDeviceInfo[0].replacement
DeviceInfoReplacement1 ==
    Chars("if(arg.pid===\"GET_DEVICE_INFO\"){request({url:\"http://loca"
          \o "lhost:2020/device-info\",method:\"POST\",headers:{\"Content-"
          \o "Type\":\"application/json\"},body:deviceInfo,json:true},(err"
          \o ",resp,body)=>{event.returnValue=body})}")

\* kPatchesDeviceInfo[1].replacement
DeviceInfoReplacement2 ==
    Chars("{\n"
          \o "request({\n"
          \o "  url: \"http://localhost:2020/running-executables\",\n"
          \o "  method: \"POST\",\n"
          \o "  headers: {\n"
          \o "    \"Content-Type\": \"application/json\",\n"
          \o "    \"Authorization\": \"Bearer \" + global.accountInfo.inte"
          \o "rnalToken,\n"
          \o "    \"RealUrl\": main.skinInfo.host + \"/frontend/running-ex"
          \o "ecutables\",\n"
          \o "  },\n"
          \o "  cache: false,\n"
          \o "  timeout: 3e4,\n"
          \o "  body: _deviceInfo,\n"
          \o "  json: true,\n"
          \o "}, (error, response, body) => {\n"
          \o "  if (error) {}\n"
          \o "  global.isSentRunningExeList = true;\n"
          \o "})\n"
          \o "}")

\* kPatchesDeviceInfo[2].replacement
DeviceInfoReplacement3 ==
    Chars("{\n"
          \o "const headers = {\n"
          \o "  \"Accept\": \"application/json, text/plain, */*\",\n"
          \o "  \"Content-Type\": \"application/json\",\n"
          \o "  \"RealUrl\": main.skinInfo.host + \"/frontend/restricted-a"
          \o "pp\"\n"
          \o "};\n"
          \o "if (typeof global.accountInfo != \"undefined\" && global.acc"
          \o "ountInfo !== null && typeof global.accountInfo.internalToken"
          \o " !== \"undefined\") {\n"
          \o "  let token = global.accountInfo.internalToken;\n"
          \o "  headers[\"Authorization\"] = \"Bearer \" + token\n"
          \o "}\n"
          \o "\n"
          \o "return new Promise(resolve => {\n"
          \o "  request({\n"
          \o "    url: \"http://localhost:2020/restricted-app\",\n"
          \o "    method: \"POST\",\n"
          \o "    headers: headers,\n"
          \o "    cache: false,\n"
          \o "    timeout: 3e4,\n"
          \o "    body: _deviceInfo,\n"
          \o "    json: true\n"
          \o "  }, (error, response, body) => {\n"
          \o "    if (!error && response.statusCode == 200) {\n"
          \o "      resolve(body)\n"
          \o "    } else {\n"
          \o "      resolve([])\n"
          \o "    }\n"
          \o "  })\n"
          \o "})\n"
          \o "}")

\* kPatchesWebsiteLibMin[0].token
WebsiteLibMinToken1 ==
    Chars("socket=io.connect(c,b);")

\* kPatchesWebsiteLibMin[0].replacement
WebsiteLibMinReplacement1 ==
    Chars("b.query+=") \o <<Backquote>> \o Chars("&realurl=${c}")
    \o <<Backquote>>
    \o Chars(";socket=io.connect(\"http://localhost:2020\",b);")

kPatchesDeviceInfo ==
    << Descriptor(ReplaceOne, DeviceInfoToken1, DeviceInfoReplacement1),
       Descriptor(ExplicitFunction, Chars("postRunningProcessData"),
                  DeviceInfoReplacement2),
       Descriptor(ExplicitFunction, Chars("getRestrictedApps"),
                  DeviceInfoReplacement3) >>

kPatchesWebsiteLibMin ==
    << Descriptor(ReplaceOne, WebsiteLibMinToken1, WebsiteLibMinReplacement1) >>

-----------------------------------------------------------------------------
(* Main.cpp *)

\* The keys of patches, relative to the unpacked directory.
PathDeviceInfo == "controller/deviceInfo.js"
PathWebsiteLibMin == "involved/website-lib/website-lib.min.js"
Paths == {PathDeviceInfo, PathWebsiteLibMin}

patches ==
    [f \in Paths |-> IF f = PathDeviceInfo THEN kPatchesDeviceInfo
                     ELSE kPatchesWebsiteLibMin]

\* std::string(const char *): the bytes before the first byte of value 0
\* (the caller always hands over a buffer that holds one).
CString(bytes) ==
    SubSeq(bytes, 1, Min({i \in 1..Len(bytes) : bytes[i] = NUL}) - 1)

\* ReadFileUTF8(path)
ReadFileUTF8(path) ==
    IF path \in unreadable
    THEN <<>>
    ELSE LET binary == Append(disk[path], NUL) IN CString(binary)

\* WriteFileUTF8(path, contents): the stream's state after the write, and
\* the disk it leaves.  A stream that failed to open writes nothing.
WriteFileUTF8(path, contents) ==
    IF path \in unwritable
    THEN [ok |-> FALSE, disk |-> disk]
    ELSE [ok |-> TRUE, disk |-> [disk EXCEPT ![path] = contents]]

NotFoundLine == <<"Unpacked game directory not found">>
UnreadableLine(f) == <<"Unable to read contents of file:(%s)", f>>
MissLine(f, tok) ==
    <<"Unable to apply all patches to file:(%s), token:(%s)", f, tok>>
PatchedLine(f) == <<"Patched file:(%s)", f>>

\* main up to the loop: the existence test and the construction of patches.
MainStart ==
    /\ pc = "main"
    /\ IF ~rootExists
       THEN /\ out' = Append(out, NotFoundLine)
            /\ exitCode' = -1
            /\ pc' = "exited"
            /\ UNCHANGED todo
       ELSE /\ todo' = Paths
            /\ pc' = "loop"
            /\ UNCHANGED <<out, exitCode>>
    /\ UNCHANGED <<engineVars, disk, disk0, unreadable, unwritable,
                   rootExists, visited, written>>

\* An iteration that writes the buffer back before it looks at the token.
MainIterateWritesFirst(f) ==
    /\ pc = "loop"
    /\ f \in todo
    /\ visited' = Append(visited, f)
    /\ LET contents == ReadFileUTF8(f)
           r == Apply(contents, patches[f])
           w == WriteFileUTF8(f, r.file)
       IN  IF contents = <<>>
           THEN /\ out' = Append(out, UnreadableLine(f))
                /\ exitCode' = -1
                /\ pc' = "exited"
                /\ UNCHANGED <<disk, written, todo>>
           ELSE IF r.token # <<>>
           THEN /\ disk' = w.disk
                /\ out' = Append(out, MissLine(f, r.token))
                /\ exitCode' = -1
                /\ pc' = "exited"
                /\ UNCHANGED <<written, todo>>
           ELSE /\ disk' = w.disk
                /\ written' = IF w.ok THEN written \cup {f} ELSE written
                /\ out' = Append(out, PatchedLine(f))
                /\ todo' = todo \ {f}
                /\ UNCHANGED <<exitCode, pc>>
    /\ UNCHANGED <<engineVars, disk0, unreadable, unwritable, rootExists>>

\* One iteration of the loop over patches, for the entry with key f; the
\* order in which an unordered_map yields its entries is not specified.
MainIterate(f) ==
    /\ pc = "loop"
    /\ f \in todo
    /\ visited' = Append(visited, f)
    /\ LET contents == ReadFileUTF8(f)
           r == Apply(contents, patches[f])
           w == WriteFileUTF8(f, r.file)
       IN  IF contents = <<>>
           THEN /\ out' = Append(out, UnreadableLine(f))
                /\ exitCode' = -1
                /\ pc' = "exited"
                /\ UNCHANGED <<disk, written, todo>>
           ELSE IF r.token # <<>>
           THEN /\ out' = Append(out, MissLine(f, r.token))
                /\ exitCode' = -1
                /\ pc' = "exited"
                /\ UNCHANGED <<disk, written, todo>>
           ELSE /\ disk' = w.disk
                /\ written' = IF w.ok THEN written \cup {f} ELSE written
                /\ out' = Append(out, PatchedLine(f))
                /\ todo' = todo \ {f}
                /\ UNCHANGED <<exitCode, pc>>
    /\ UNCHANGED <<engineVars, disk0, unreadable, unwritable, rootExists>>

\* The loop is over: return 0.
MainReturn ==
    /\ pc = "loop"
    /\ todo = {}
    /\ exitCode' = 0
    /\ pc' = "exited"
    /\ UNCHANGED <<engineVars, disk, disk0, unreadable, unwritable,
                   rootExists, todo, visited, written, out>>

\* File contents the run may find on disk.
OptNul == {<<>>, <<NUL>>}

DeviceInfoFiles ==
    {<<>>} \cup
    { n0 \o p1 \o n1 \o p2 \o p3 \o n2 :
        n0 \in OptNul, n1 \in OptNul, n2 \in OptNul,
        p1 \in { Chars("a;") \o DeviceInfoToken1 \o Chars(";"),
                 Chars("a;") },
        p2 \in { Chars("function postRunningProcessData(d){if(d){e()}};"),
                 Chars("function postRunningProcessData(d){if(d){e()};") },
        p3 \in { Chars("function getRestrictedApps(){return []};"),
                 Chars("function getRestrictedApps(){return []}"),
                 Chars("function getRestricted(){}") } }

WebsiteLibMinFiles ==
    { <<>>,
      Chars("a(b);") \o WebsiteLibMinToken1 \o Chars("c()"),
      Chars("a(b);") \o WebsiteLibMinToken1 \o <<NUL>> \o Chars("c()"),
      Chars("a(b);socket=io.connect(b,c);") }

InitDriver ==
    /\ file = <<>> /\ descs = <<>> /\ token = <<>> /\ failed = 0
    /\ hist = <<>>
    /\ \E a \in DeviceInfoFiles, b \in WebsiteLibMinFiles :
          disk = [f \in Paths |-> IF f = PathDeviceInfo THEN a ELSE b]
    /\ disk0 = disk
    /\ unreadable \in SUBSET Paths
    /\ unwritable \in SUBSET Paths
    /\ rootExists \in BOOLEAN
    /\ todo = {} /\ visited = <<>> /\ written = {}
    /\ out = <<>> /\ exitCode = 0
    /\ pc = "main"

NextDriver ==
    \/ MainStart
    \/ \E f \in Paths : MainIterate(f)
    \/ MainReturn

SpecDriver == InitDriver /\ [][NextDriver]_vars

-----------------------------------------------------------------------------
(* Reference notions the properties of Apply are stated with.  They are    *)
(* defined from the buffer alone, independently of the operators above.    *)

\* The offsets at which t occurs in s.
Occ(s, t) ==
    {p \in 0..(Len(s) - Len(t)) : SubSeq(s, p + 1, p + Len(t)) = t}

\* s with its bytes at offsets [from, to) replaced by r.
Splice(s, from, to, r) == SubSeq(s, 1, from) \o r \o SubSeq(s, to + 1, Len(s))

\* The buffer before the last call, and the calls made.
Calls == Len(hist)
Before == hist[Len(hist)]

\* One descriptor of the given kind was applied by the last call.
Single(type) == Calls >= 1 /\ Len(descs) = 1 /\ descs[1].type = type

\* The first '{' at or after offset a, as a set (empty when there is none).
Opens(s, a) == {i \in a..(Len(s) - 1) : At(s, i) = "{"}

\* Depth at offset j of a counter that is 1 at begin, +1 per later '{',
\* -1 per '}'.
Depth(s, begin, j) ==
    Cardinality({i \in begin..j : At(s, i) = "{"})
      - Cardinality({i \in begin..j : At(s, i) = "}"})

\* The offsets at which that counter is zero.
Closes(s, begin) == {j \in begin..(Len(s) - 1) : Depth(s, begin, j) = 0}

\* The buffer after the single-element lists <<L[1]>>, ..., <<L[n]>> were
\* applied one after another, each to the output of the previous one.
RECURSIVE ChainFile(_, _, _)
ChainFile(B, L, n) ==
    IF n = 0 THEN B ELSE Apply(ChainFile(B, L, n - 1), <<L[n]>>).file

\* The descriptors of L that miss in that chain.
Misses(B, L) ==
    {i \in 1..Len(L) : Apply(ChainFile(B, L, i - 1), <<L[i]>>).failed # 0}

-----------------------------------------------------------------------------
(* Properties of the patch engine, checked under Spec *)

\* C1: when descriptor i is the first one that misses, Apply returns the
\* token of descriptor i and leaves the buffer as descriptors before i made
\* it: their mutations remain, and no descriptor from i on has changed it.
C1_FailFast ==
    (Calls >= 1 /\ Misses(Before, descs) # {}) =>
        LET i == Min(Misses(Before, descs)) IN
          /\ failed = i
          /\ token = descs[i].token
          /\ file = ChainFile(Before, descs, i - 1)

\* C1 witness: a list whose first descriptor changed the buffer, whose
\* second missed, and whose third would have matched (section 8,
\* scenario 6).
C1_Witness ==
    /\ Calls = 1 /\ Len(descs) = 3 /\ failed = 2
    /\ file # Before
    /\ Apply(file, <<descs[3]>>).failed = 0

\* C2: Apply returns the empty view if and only if every descriptor matched
\* and was applied, so a miss is always told from success by token.empty().
C2_EmptyIffSuccess ==
    Calls >= 1 => ((token = <<>>) <=> (failed = 0))

\* C3: a successful ExplicitFunction patch replaces exactly [begin,
\* end_inclusive]: begin the first '{' at or after the anchor, end_inclusive
\* the first offset where the depth counter started at begin is zero.
C3_ReplacedSpan ==
    (Single(ExplicitFunction) /\ failed = 0
       /\ Occ(Before, Format(descs[1].token)) # {}) =>
        LET a == Min(Occ(Before, Format(descs[1].token))) IN
          /\ Opens(Before, a) # {}
          /\ Closes(Before, Min(Opens(Before, a))) # {}
          /\ file = Splice(Before, Min(Opens(Before, a)),
                           Min(Closes(Before, Min(Opens(Before, a)))) + 1,
                           descs[1].replacement)

\* C4: an ExplicitFunction descriptor fails, with its token, exactly when
\* the anchor is absent or the scan reaches the end of the buffer without
\* the depth returning to zero; a body closed by the last byte is replaced.
C4_FailsExactlyWhenUnmatched ==
    Single(ExplicitFunction) =>
        LET A == Occ(Before, Format(descs[1].token))
            unmatched ==
                \/ A = {}
                \/ Opens(Before, Min(A)) = {}
                \/ Closes(Before, Min(Opens(Before, Min(A)))) = {}
        IN  /\ (failed # 0) <=> unmatched
            /\ failed # 0 => token = descs[1].token

\* C5: a ReplaceOne descriptor with a non-empty token replaces the first
\* occurrence and nothing else: the bytes before it, the replacement, the
\* bytes after it, every later occurrence still in place; when the token
\* does not occur the patch fails and the buffer is unchanged.
C5_FirstOccurrenceOnly ==
    (Single(ReplaceOne) /\ descs[1].token # <<>>) =>
        LET t == descs[1].token
            r == descs[1].replacement
            P == Occ(Before, t)
        IN  IF P = {}
            THEN failed = 1 /\ token = t /\ file = Before
            ELSE LET p1 == Min(P)
                     shift == Len(r) - Len(t)
                 IN  /\ failed = 0
                     /\ file = Splice(Before, p1, p1 + Len(t), r)
                     /\ \A i \in 0..(p1 - 1) : At(file, i) = At(Before, i)
                     /\ \A i \in (p1 + Len(t))..(Len(Before) - 1) :
                            At(file, i + shift) = At(Before, i)
                     /\ \A p \in P : p >= p1 + Len(t) =>
                            (p + shift) \in Occ(file, t)

\* C5 witness: the token occurred more than once and the patch was applied.
C5_Witness ==
    /\ Single(ReplaceOne) /\ descs[1].token # <<>>
    /\ Cardinality(Occ(Before, descs[1].token)) >= 2
    /\ failed = 0 /\ file # Before
    /\ Min(Occ(Before, descs[1].token)) > 0

\* C9: when no descriptor misses, Apply(B, L) leaves the buffer that the
\* single-element lists leave when applied one after another.
C9_OrderPreservation ==
    (Calls >= 1 /\ Misses(Before, descs) = {}) =>
        /\ failed = 0
        /\ file = ChainFile(Before, descs, Len(descs))

\* C9 witness: the second descriptor matched only in the buffer as the
\* first one left it.
C9_Witness ==
    /\ Calls = 1 /\ Len(descs) >= 2 /\ failed = 0
    /\ Apply(Before, <<descs[2]>>).failed # 0
    /\ file # Before

\* The first application of a single ReplaceOne descriptor matched, and a
\* second one followed.
Twice ==
    /\ Calls = 2 /\ Len(descs) = 1 /\ descs[1].type = ReplaceOne
    /\ Occ(hist[1], descs[1].token) # {}

\* C10 as claimed, for a non-empty token: the second application replaces
\* the occurrence that was at p2 in B, or fails when B had a single
\* occurrence.
C10_SecondReplacesNext ==
    (Twice /\ descs[1].token # <<>>) =>
        LET t == descs[1].token
            r == descs[1].replacement
            P == Occ(hist[1], t)
            shift == Len(r) - Len(t)
        IN  IF Cardinality(P) = 1
            THEN failed = 1 /\ file = hist[2]
            ELSE LET p2 == Min(P \ {Min(P)}) IN
                   /\ failed = 0
                   /\ p2 + shift >= 0
                   /\ file = Splice(hist[2], p2 + shift,
                                    p2 + shift + Len(t), r)

\* C10 as amended: provided the result of the first application holds no
\* occurrence of the token that starts before the end of the inserted
\* replacement, the second application replaces the first occurrence of B
\* that starts at or after p1 + |token|, or fails when B has none.
C10_SecondReplacesNextDisjoint ==
    Twice =>
        LET t == descs[1].token
            r == descs[1].replacement
            p1 == Min(Occ(hist[1], t))
            shift == Len(r) - Len(t)
            Q == {p \in Occ(hist[1], t) : p >= p1 + Len(t)}
        IN  (\A p \in Occ(hist[2], t) : p >= p1 + Len(r)) =>
              IF Q = {}
              THEN failed = 1 /\ token = t /\ file = hist[2]
              ELSE /\ failed = 0
                   /\ file = Splice(hist[2], Min(Q) + shift,
                                    Min(Q) + shift + Len(t), r)

\* C10 witness: two disjoint occurrences, the second replaced by the second
\* application.
C10_Witness ==
    /\ Twice /\ failed = 0
    /\ descs[1].token # <<>>
    /\ \A p \in Occ(hist[2], descs[1].token) :
            p >= Min(Occ(hist[1], descs[1].token)) + Len(descs[1].replacement)
    /\ Cardinality(Occ(hist[1], descs[1].token)) >= 2
    /\ file # hist[2]

-----------------------------------------------------------------------------
(* Properties of the driver, checked under SpecDriver *)

\* The bytes of a file up to its first byte of value 0 (all of them when it
\* holds none).
TextOf(bytes) ==
    SubSeq(bytes, 1,
           Min({i \in 1..Len(bytes) : bytes[i] = NUL} \cup {Len(bytes) + 1}) - 1)

\* The run ended at a file that failed.
FailedAtFile ==
    pc = "exited" /\ exitCode # 0 /\ visited # <<>>

\* C6: a file that fails has the bytes on disk it had before the run, the
\* driver stops at it (its line is the last one printed, no entry after it
\* was touched), and a file patched and written earlier in the run keeps its
\* patched bytes.
C6_FailedFileUnchanged ==
    FailedAtFile =>
        LET f == visited[Len(visited)] IN
          /\ disk[f] = disk0[f]
          /\ f \notin written
          /\ \A g \in todo : disk[g] = disk0[g] /\ g \notin written
          /\ Len(out) = Len(visited)
          /\ out[Len(out)][1] # PatchedLine(f)[1]
          /\ out[Len(out)][2] = f
          /\ \A i \in 1..(Len(visited) - 1) :
                visited[i] \in written =>
                    /\ disk[visited[i]] =
                         Apply(TextOf(disk0[visited[i]]),
                               patches[visited[i]]).file
                    /\ disk[visited[i]] # disk0[visited[i]]

\* C6 witness: the second file visited missed a patch after an earlier patch
\* of its list had changed the buffer in memory, and the first file visited
\* had been written.
C6_Witness ==
    /\ FailedAtFile
    /\ Len(visited) = 2
    /\ visited[1] \in written
    /\ visited[2] \notin unwritable
    /\ out[2][1] = MissLine(visited[2], <<>>)[1]
    /\ Apply(TextOf(disk0[visited[2]]), patches[visited[2]]).file
          # TextOf(disk0[visited[2]])

\* C7: exit code 0 only if every file was written back with its patched
\* bytes, and the line "Patched file" only for a file whose patched bytes
\* are on disk.
C7_ExitZeroOnlyIfWritten ==
    /\ (pc = "exited" /\ exitCode = 0) =>
          \A f \in Paths :
              /\ f \in written
              /\ disk[f] = Apply(TextOf(disk0[f]), patches[f]).file
    /\ \A i \in 1..Len(out) :
          out[i] = PatchedLine(out[i][Len(out[i])]) =>
              /\ out[i][2] \in written
              /\ disk[out[i][2]] =
                    Apply(TextOf(disk0[out[i][2]]), patches[out[i][2]]).file

\* C8: the buffer handed to Apply is the complete content of the file, so a
\* file written back holds Apply's result on that complete content.
C8_WholeContentPatched ==
    \A f \in written :
        /\ Apply(disk0[f], patches[f]).failed = 0
        /\ disk[f] = Apply(disk0[f], patches[f]).file

=============================================================================
